---- MODULE Spec2Model ----
(***************************************************************************)
(* A model of the "tools" command line: the Jira vendor client             *)
(* (package vendors, in src/cmd/graylog.go lines 84-537) and the cobra     *)
(* subcommands of cmd/jira.go and cmd/graylog.go that drive it.            *)
(*                                                                         *)
(* One run of the process is: flags and environment give the option        *)
(* structs, the subcommand's Run resolves a content-valued option, builds  *)
(* the client, calls one client method and reports the result.  A client   *)
(* method blocks in the HTTP transport; the server's answer is the         *)
(* environment's choice.                                                   *)
(***************************************************************************)
EXTENDS Integers, Sequences, FiniteSets, TLC

\* Largest page count a first page may report (pageSize ranges over halves).
MaxPages == 3

(***************************************************************************)
(* Values.                                                                 *)
(***************************************************************************)

\* utils.IsEmpty, as used on option strings
IsEmpty(s) == s = ""

\* An optional pointer field: <<>> is nil, <<v>> points to v.
Nil == <<>>
Ptr(v) == <<v>>

\* Decoded JSON values of a response, tagged by their Go dynamic type: a
\* list's elements are in l, a number in n.
JMissing == [t |-> "missing", l |-> <<>>, n |-> 0]
JList(l) == [t |-> "list", l |-> l, n |-> 0]
JStr == [t |-> "str", l |-> <<>>, n |-> 0]
\* A JSON number is a float64; h is the number in halves (h = 3 is 1.5).
JNum(h) == [t |-> "num", l |-> <<>>, n |-> h]

(***************************************************************************)
(* Options (the option structs of package vendors, filled by package cmd). *)
(***************************************************************************)

Cmds ==
  {"create", "add-comment", "add-attachment", "update", "change-transitions",
   "search", "assets-search", "logs"}

JiraCmds == Cmds \ {"logs"}

\* The option structs with the values the CLI seeds when nothing is set.
DefaultOpt ==
  [URL |-> "https://jira", User |-> "", Password |-> "", AccessToken |-> "",
   ProjectKey |-> "", Type |-> "", Priority |-> "", Assignee |-> "", Reporter |-> "",
   IdOrKey |-> "", Summary |-> "", Description |-> "", CustomFields |-> "",
   Status |-> "", Labels |-> <<"">>,
   Body |-> "", File |-> "", Name |-> "",
   SearchPattern |-> <<>>, MaxResults |-> 50, ResultPerPage |-> 50,
   Query |-> ""]

\* Files the content loader can read, and their content.
ExistingFiles == {"/tmp/desc.txt", "/tmp/att.bin"}

FileText(p) ==
  CASE p = "/tmp/desc.txt" -> "text of desc.txt"
    [] p = "/tmp/att.bin" -> "bytes of att.bin"
    [] OTHER -> p

\* utils.FileExists
FileExists(p) == p \in ExistingFiles

\* utils.Content on a string option: the file's content when the value names a
\* file, the value itself otherwise.
Content(s) == IF FileExists(s) THEN FileText(s) ELSE s

\* A search pattern is a sequence of characters; a word of unreserved
\* characters is one element.  The one pattern file holds "type = Host".
PatternFile == <<"/tmp/q.aql">>

ContentPattern(p) == IF p = PatternFile THEN <<"type", " ", "=", " ", "Host">> ELSE p

\* filepath.Base on the attachment paths of the model
Base(p) ==
  CASE p = "/tmp/att.bin" -> "att.bin"
    [] p = "/tmp/desc.txt" -> "desc.txt"
    [] OTHER -> p

(***************************************************************************)
(* URLs and query strings.                                                 *)
(***************************************************************************)

\* url.Parse on the base URLs of the model: ok and the path's segments as
\* split at "/", where an empty segment stands for a doubled or trailing slash.
UrlParse(u) ==
  CASE u = "https://jira" -> [ok |-> TRUE, host |-> "jira", path |-> <<>>]
    [] u = "https://jira/root/" -> [ok |-> TRUE, host |-> "jira", path |-> <<"root", "">>]
    [] OTHER -> [ok |-> FALSE, host |-> "", path |-> <<>>]

URLs == {"https://jira", "https://jira/root/", ":bad"}

\* path.Join: joins with "/" and cleans, which drops empty segments.
PathJoin(a, b) == SelectSeq(a \o b, LAMBDA s : s # "")

\* A QueryEscape1 that escapes nothing.
QueryEscape1_Raw(c) == c

\* url.QueryEscape on one character (or word of unreserved characters).
QueryEscape1(c) ==
  CASE c = "=" -> "%3D"
    [] c = " " -> "+"
    [] c = "&" -> "%26"
    [] c = "%" -> "%25"
    [] OTHER -> c

RECURSIVE QueryEscape(_)
QueryEscape(s) ==
  IF s = <<>> THEN <<>> ELSE <<QueryEscape1(Head(s))>> \o QueryEscape(Tail(s))

Digits == <<"0", "1", "2", "3", "4", "5", "6", "7", "8", "9">>

\* strconv.Itoa
RECURSIVE Itoa(_)
Itoa(n) ==
  IF n < 0 THEN "-" \o Itoa(0 - n)
  ELSE IF n < 10 THEN Digits[n + 1]
  ELSE Itoa(n \div 10) \o Digits[(n % 10) + 1]

\* The keys url.Values.Encode can meet here, in the sorted order it emits them.
SortedKeys == <<"jql", "maxResults", "page", "qlQuery", "resultPerPage", "validateQuery">>

\* url.Values.Encode: key=escaped value pairs in key order, joined by "&";
\* params maps a key to its value (a sequence of characters).
RECURSIVE EncodeFrom(_, _, _)
EncodeFrom(params, keys, first) ==
  IF keys = <<>> THEN <<>>
  ELSE IF Head(keys) \in DOMAIN params
       THEN (IF first THEN <<>> ELSE <<"&">>) \o <<Head(keys), "=">>
            \o QueryEscape(params[Head(keys)]) \o EncodeFrom(params, Tail(keys), FALSE)
       ELSE EncodeFrom(params, Tail(keys), first)

Encode(params) == EncodeFrom(params, SortedKeys, TRUE)

\* The text of a sequence of pieces.
RECURSIVE Flat(_)
Flat(s) == IF s = <<>> THEN "" ELSE Head(s) \o Flat(Tail(s))

(***************************************************************************)
(* Authorization.                                                          *)
(***************************************************************************)

\* base64.StdEncoding.EncodeToString, kept symbolic: the encoding of a text.
StdEncoding(s) == <<"base64">> \o s

\* A getAuth that looks at the access token first.
getAuth_TokenFirst(opts) ==
  IF ~IsEmpty(opts.AccessToken)
  THEN [scheme |-> "Bearer", cred |-> <<opts.AccessToken>>]
  ELSE IF ~IsEmpty(opts.User)
       THEN [scheme |-> "Basic", cred |-> StdEncoding(<<opts.User, ":", opts.Password>>)]
       ELSE [scheme |-> "", cred |-> <<>>]

\* Jira.getAuth: the Authorization value as scheme and credential; the empty
\* string is the empty scheme.
getAuth(opts) ==
  IF ~IsEmpty(opts.User)
  THEN [scheme |-> "Basic", cred |-> StdEncoding(<<opts.User, ":", opts.Password>>)]
  ELSE IF ~IsEmpty(opts.AccessToken)
       THEN [scheme |-> "Bearer", cred |-> <<opts.AccessToken>>]
       ELSE [scheme |-> "", cred |-> <<>>]

(***************************************************************************)
(* Issue payloads.                                                         *)
(***************************************************************************)

FieldKeys ==
  {"project", "issuetype", "summary", "description", "labels", "priority",
   "assignee", "reporter"}

\* The JSON object encoding/json writes for a JiraIssueFields value: every
\* field is tagged omitempty, so a nil pointer, an empty string and a slice of
\* length 0 are left out.
JiraIssueFields(f) ==
  LET present(k) ==
        CASE k = "project" -> f.Project # Nil
          [] k = "issuetype" -> f.IssueType # Nil
          [] k = "summary" -> f.Summary # ""
          [] k = "description" -> f.Description # ""
          [] k = "labels" -> Len(f.Labels) > 0
          [] k = "priority" -> f.Priority # Nil
          [] k = "assignee" -> f.Assignee # Nil
          [] k = "reporter" -> f.Reporter # Nil
      value(k) ==
        CASE k = "project" -> f.Project[1]
          [] k = "issuetype" -> f.IssueType[1]
          [] k = "summary" -> f.Summary
          [] k = "description" -> f.Description
          [] k = "labels" -> f.Labels
          [] k = "priority" -> f.Priority[1]
          [] k = "assignee" -> f.Assignee[1]
          [] k = "reporter" -> f.Reporter[1]
  IN [k \in {x \in FieldKeys : present(x)} |-> value(k)]

\* common.InterfaceToMap on a JiraIssueCreate / JiraIssueUpdate: the generic
\* map of the value's JSON form.
InterfaceToMap(issue) == [fields |-> JiraIssueFields(issue.Fields)]

\* common.ReadAndMarshal on the custom-field files of the model.
ReadAndMarshal(p) ==
  CASE p = "/cf/empty.json" -> [err |-> FALSE, m |-> <<>>]
    [] p = "/cf/new.json" -> [err |-> FALSE, m |-> [customfield_10000 |-> "cf value"]]
    [] p = "/cf/over.json" ->
         [err |-> FALSE,
          m |-> [summary |-> "cf summary", priority |-> [name |-> "cf priority"],
                 labels |-> <<"cf-label">>, customfield_10000 |-> "cf value"]]
    [] OTHER -> [err |-> TRUE, m |-> <<>>]

CustomFieldFiles == {"", "/cf/empty.json", "/cf/new.json", "/cf/over.json", "/cf/missing.json"}

\* The custom-field map of a create or update: empty unless the option is set.
CustomFieldsOf(o) ==
  IF ~IsEmpty(o.CustomFields) THEN ReadAndMarshal(o.CustomFields)
  ELSE [err |-> FALSE, m |-> <<>>]

\* A jsonJiraMarshal whose merge keeps the structured value of a key it has.
jsonJiraMarshal_StructWins(issue, cf) ==
  LET m == InterfaceToMap(issue) IN
  IF Cardinality(DOMAIN cf) > 0
  THEN LET value == m.fields IN
       [m EXCEPT !.fields =
          [k \in (DOMAIN value) \cup (DOMAIN cf) |->
             IF k \in DOMAIN value THEN value[k] ELSE cf[k]]]
  ELSE m

\* jsonJiraMarshal: the issue's map with every custom field written over the
\* "fields" object.
jsonJiraMarshal(issue, cf) ==
  LET m == InterfaceToMap(issue) IN
  IF Cardinality(DOMAIN cf) > 0
  THEN LET value == m.fields IN
       [m EXCEPT !.fields =
          [k \in (DOMAIN value) \cup (DOMAIN cf) |->
             IF k \in DOMAIN cf THEN cf[k] ELSE value[k]]]
  ELSE m

\* A CustomIssueCreate that sets the project and issue type pointers only for
\* a non-empty key or name, as it does for priority, assignee and reporter.
CreateIssue_Guarded(o) ==
  [Fields |->
     [Project |-> IF ~IsEmpty(o.ProjectKey) THEN Ptr([key |-> o.ProjectKey]) ELSE Nil,
      IssueType |-> IF ~IsEmpty(o.Type) THEN Ptr([name |-> o.Type]) ELSE Nil,
      Summary |-> o.Summary,
      Description |-> o.Description,
      Labels |-> o.Labels,
      Priority |-> IF ~IsEmpty(o.Priority) THEN Ptr([name |-> o.Priority]) ELSE Nil,
      Assignee |-> IF ~IsEmpty(o.Assignee) THEN Ptr([name |-> o.Assignee]) ELSE Nil,
      Reporter |-> IF ~IsEmpty(o.Reporter) THEN Ptr([name |-> o.Reporter]) ELSE Nil]]

\* The struct CustomIssueCreate fills before marshalling.
CreateIssue(o) ==
  [Fields |->
     [Project |-> Ptr([key |-> o.ProjectKey]),
      IssueType |-> Ptr([name |-> o.Type]),
      Summary |-> o.Summary,
      Description |-> o.Description,
      Labels |-> o.Labels,
      Priority |-> IF ~IsEmpty(o.Priority) THEN Ptr([name |-> o.Priority]) ELSE Nil,
      Assignee |-> IF ~IsEmpty(o.Assignee) THEN Ptr([name |-> o.Assignee]) ELSE Nil,
      Reporter |-> IF ~IsEmpty(o.Reporter) THEN Ptr([name |-> o.Reporter]) ELSE Nil]]

\* The struct CustomIssueUpdate fills: labels only when one of them is not empty.
UpdateIssue(o) ==
  [Fields |->
     [Project |-> Nil, IssueType |-> Nil,
      Summary |-> o.Summary,
      Description |-> o.Description,
      Labels |-> IF Len(o.Labels) > 0 /\ \E n \in 1..Len(o.Labels) : ~IsEmpty(o.Labels[n])
                 THEN o.Labels ELSE <<>>,
      Priority |-> Nil, Assignee |-> Nil, Reporter |-> Nil]]

(***************************************************************************)
(* The process state.                                                      *)
(***************************************************************************)

VARIABLES
  cmd,        \* the subcommand that runs
  opt,        \* the option structs
  pc,         \* position of the run: start, resolved, ready, wait, loop,
              \* returned, done, errored, aborted, crashed
  requests,   \* every HTTP request issued, in order
  pending,    \* the requests in flight
  received,   \* the transport results the client method has taken, in order
  loc,        \* the locals of AssetsCustomSearch
  ret,        \* what the client method returned
  outputs,    \* what was handed to the output step
  errs,       \* the error stream
  field,      \* the option field whose value is followed (an index of Fields)
  environ,    \* the names of the environment variables that are set
  args,       \* the names of the flags passed on the command line
  value,      \* where the field's value comes from: default, env or flag
  phase       \* off, load (before the package's variables are set), flags, run, usage

runvars == <<cmd, opt, pc, requests, pending, received, loc, ret, outputs, errs>>

optvars == <<field, environ, args, value, phase>>

vars == <<runvars, optvars>>

NoRet == [kind |-> "none", bytes |-> <<>>, err |-> ""]
ErrRet(e) == [kind |-> "err", bytes |-> <<>>, err |-> e]
OkRet(b) == [kind |-> "ok", bytes |-> b, err |-> ""]

NoLoc == [i |-> 0, pageSize |-> 0, assetsObj |-> <<>>, objAttr |-> <<>>,
          params |-> <<>>, path |-> <<>>]

(***************************************************************************)
(* The inputs of a run.                                                    *)
(***************************************************************************)

Credentials ==
  {[DefaultOpt EXCEPT !.User = u, !.Password = IF u = "" THEN "" ELSE "secret",
                      !.AccessToken = t] :
     u \in {"", "user"}, t \in {"", "token"}}

LabelLists == {<<>>, <<"">>, <<"ops">>, <<"", "ops">>}

Patterns ==
  {<<>>, <<"project", "=", "X">>, <<"a", "&", "b">>, <<"x", " ", "%">>, PatternFile}

ResultCaps == {10, 50, 0, -1}

Inputs(c) ==
  CASE c = "create" ->
         {[o EXCEPT !.ProjectKey = pt[1], !.Type = pt[2], !.Priority = pr,
                    !.Assignee = a, !.Reporter = r, !.Labels = l,
                    !.CustomFields = cf, !.Summary = "sum", !.Description = d] :
            o \in {x \in Credentials : x.User # ""},
            pt \in {<<"OPS", "Task">>, <<"", "Task">>, <<"OPS", "">>},
            pr \in {"", "High"}, a \in {"", "bob"}, r \in {"", "eve"},
            l \in LabelLists, cf \in CustomFieldFiles,
            d \in {"", "/tmp/desc.txt"}}
         \cup {[o EXCEPT !.URL = u, !.ProjectKey = "OPS", !.Type = "Task"] :
                 o \in Credentials, u \in URLs}
    [] c = "update" ->
         {[o EXCEPT !.IdOrKey = "OPS-1", !.Labels = l, !.CustomFields = cf,
                    !.Summary = s, !.Description = d, !.URL = u] :
            o \in Credentials, l \in LabelLists, cf \in CustomFieldFiles,
            s \in {"", "sum"}, d \in {"", "/tmp/desc.txt"}, u \in {"https://jira", ":bad"}}
    [] c = "add-comment" ->
         {[o EXCEPT !.IdOrKey = "OPS-1", !.Body = b, !.URL = u] :
            o \in Credentials, b \in {"", "a comment", "/tmp/desc.txt"}, u \in URLs}
    [] c = "add-attachment" ->
         {[o EXCEPT !.IdOrKey = "OPS-1", !.File = f, !.Name = n, !.URL = u] :
            o \in Credentials, f \in {"", "inline bytes", "/tmp/att.bin"},
            n \in {"", "given.bin"}, u \in URLs}
    [] c = "change-transitions" ->
         {[o EXCEPT !.IdOrKey = "OPS-1", !.Status = s, !.URL = u] :
            o \in Credentials, s \in {"", "31"}, u \in URLs}
    [] c = "search" ->
         {[o EXCEPT !.SearchPattern = p, !.MaxResults = n, !.URL = u] :
            o \in Credentials, p \in Patterns, n \in ResultCaps, u \in URLs}
    [] c = "assets-search" ->
         {[o EXCEPT !.SearchPattern = p, !.URL = u] :
            o \in Credentials, p \in {<<"type", "=", "Host">>, PatternFile},
            u \in {"https://jira/root/", ":bad"}}
    [] c = "logs" ->
         {[DefaultOpt EXCEPT !.Query = q, !.User = u] :
            q \in {"", "error", "/tmp/desc.txt"}, u \in {"", "user"}}

Init ==
  /\ cmd \in Cmds
  /\ opt \in Inputs(cmd)
  /\ pc = "start"
  /\ requests = <<>>
  /\ pending = <<>>
  /\ received = <<>>
  /\ loc = NoLoc
  /\ ret = NoRet
  /\ outputs = <<>>
  /\ errs = <<>>
  /\ field = 0 /\ environ = {} /\ args = {} /\ value = "" /\ phase = "off"

(***************************************************************************)
(* The subcommand's Run, up to the client call.                            *)
(***************************************************************************)

\* issueAddAttachmentCmd: an empty Name becomes the base name of an existing File.
Named(o) ==
  IF IsEmpty(o.Name) /\ FileExists(o.File) THEN [o EXCEPT !.Name = Base(o.File)] ELSE o

\* A content resolution that overwrites File before the attachment is named:
\* the name is then looked for in the content, not in the path.
Resolved_ContentFirst(c, o) ==
  CASE c \in {"create", "update"} -> [o EXCEPT !.Description = Content(o.Description)]
    [] c = "add-comment" -> [o EXCEPT !.Body = Content(o.Body)]
    [] c = "add-attachment" -> Named([o EXCEPT !.File = Content(o.File)])
    [] c = "change-transitions" -> [o EXCEPT !.Status = Content(o.Status)]
    [] c \in {"search", "assets-search"} ->
         [o EXCEPT !.SearchPattern = ContentPattern(o.SearchPattern)]
    [] c = "logs" -> [o EXCEPT !.Query = Content(o.Query)]

\* The options after the Run's content resolution.
Resolved(c, o) ==
  CASE c \in {"create", "update"} -> [o EXCEPT !.Description = Content(o.Description)]
    [] c = "add-comment" -> [o EXCEPT !.Body = Content(o.Body)]
    [] c = "add-attachment" -> [Named(o) EXCEPT !.File = Content(o.File)]
    [] c = "change-transitions" -> [o EXCEPT !.Status = Content(o.Status)]
    [] c \in {"search", "assets-search"} ->
         [o EXCEPT !.SearchPattern = ContentPattern(o.SearchPattern)]
    [] c = "logs" -> [o EXCEPT !.Query = Content(o.Query)]

\* stdout.Panic: the run ends here.
Panic(e) ==
  /\ pc' = "aborted"
  /\ errs' = Append(errs, e)

\* utils.Content in Run (in graylogNew for logs): it fails or gives the content.
Resolve ==
  /\ pc = "start"
  /\ \E ok \in BOOLEAN :
       IF ok
       THEN /\ opt' = Resolved(cmd, opt)
            /\ pc' = "resolved"
            /\ UNCHANGED errs
       ELSE /\ opt' = IF cmd = "add-attachment" THEN Named(opt) ELSE opt
            /\ Panic("content")
  /\ UNCHANGED <<cmd, requests, pending, received, loc, ret, outputs, optvars>>

\* jiraNew: NewJira never returns an error.  graylogNew: NewGraylog may give nil.
Construct ==
  /\ pc = "resolved"
  /\ \E ok \in (IF cmd = "logs" THEN BOOLEAN ELSE {TRUE}) :
       IF ok
       THEN pc' = "ready" /\ UNCHANGED errs
       ELSE Panic("No graylog")
  /\ UNCHANGED <<cmd, opt, requests, pending, received, loc, ret, outputs, optvars>>

(***************************************************************************)
(* The client methods.                                                     *)
(***************************************************************************)

\* A transport call the caller does not wait for.
AfterIssue_NoWait == "loop"

\* The transport call is synchronous: the caller waits for its result.
AfterIssue == "wait"

Issue(req) ==
  /\ requests' = Append(requests, req)
  /\ pending' = Append(pending, req)
  /\ pc' = AfterIssue

Return(r) ==
  /\ ret' = r
  /\ pc' = "returned"

Request(method, path, query, auth, headers, body) ==
  [method |-> method, path |-> path, query |-> query, auth |-> auth,
   headers |-> headers, body |-> body]

NoHeaders == <<>>

\* The tail shared by the methods that build a body and then parse the URL:
\* url.Parse, path.Join, one request.
ParseAndIssue(method, tail, query, body) ==
  LET u == UrlParse(opt.URL) IN
  IF ~u.ok
  THEN Return(ErrRet("url.Parse")) /\ UNCHANGED <<requests, pending>>
  ELSE /\ Issue(Request(method, PathJoin(u.path, tail), query, getAuth(opt),
                        NoHeaders, body))
       /\ UNCHANGED ret

CustomIssueCreate ==
  /\ pc = "ready" /\ cmd = "create"
  /\ LET cf == CustomFieldsOf(opt) IN
     IF cf.err
     THEN Return(ErrRet("ReadAndMarshal")) /\ UNCHANGED <<requests, pending>>
     ELSE ParseAndIssue("POST", <<"rest", "api", "2", "issue">>, <<>>,
                        jsonJiraMarshal(CreateIssue(opt), cf.m))
  /\ UNCHANGED <<cmd, opt, received, loc, outputs, errs, optvars>>

CustomIssueUpdate ==
  /\ pc = "ready" /\ cmd = "update"
  /\ LET cf == CustomFieldsOf(opt) IN
     IF cf.err
     THEN Return(ErrRet("ReadAndMarshal")) /\ UNCHANGED <<requests, pending>>
     ELSE ParseAndIssue("PUT", <<"rest", "api", "2", "issue", opt.IdOrKey>>, <<>>,
                        jsonJiraMarshal(UpdateIssue(opt), cf.m))
  /\ UNCHANGED <<cmd, opt, received, loc, outputs, errs, optvars>>

CustomIssueAddComment ==
  /\ pc = "ready" /\ cmd = "add-comment"
  /\ ParseAndIssue("POST", <<"rest", "api", "2", "issue", opt.IdOrKey, "comment">>,
                   <<>>, [body |-> opt.Body])
  /\ UNCHANGED <<cmd, opt, received, loc, outputs, errs, optvars>>

\* The attachment is one multipart file part; the header map is filled by hand:
\* Content-type, Authorization (whatever getAuth returns) and
\* X-Atlassian-Token, each assigned unconditionally.
CustomIssueAddAttachment ==
  /\ pc = "ready" /\ cmd = "add-attachment"
  /\ LET u == UrlParse(opt.URL) IN
     IF ~u.ok
     THEN Return(ErrRet("url.Parse")) /\ UNCHANGED <<requests, pending>>
     ELSE /\ Issue(Request("POST",
                     PathJoin(u.path, <<"rest", "api", "2", "issue", opt.IdOrKey, "attachments">>),
                     <<>>, getAuth(opt),
                     [ContentType |-> "multipart/form-data",
                      Authorization |-> getAuth(opt),
                      XAtlassianToken |-> "no-check"],
                     <<[field |-> "file", filename |-> opt.Name, content |-> opt.File]>>))
          /\ UNCHANGED ret
  /\ UNCHANGED <<cmd, opt, received, loc, outputs, errs, optvars>>

CustomIssueChangeTransitions ==
  /\ pc = "ready" /\ cmd = "change-transitions"
  /\ ParseAndIssue("POST", <<"rest", "api", "2", "issue", opt.IdOrKey, "transitions">>,
                   <<>>, [transition |-> [id |-> opt.Status]])
  /\ UNCHANGED <<cmd, opt, received, loc, outputs, errs, optvars>>

\* The query of CustomIssueSearch, as url.Values
SearchParams(o) ==
  [k \in {"jql", "maxResults", "validateQuery"} |->
     CASE k = "jql" -> o.SearchPattern
       [] k = "maxResults" -> <<Itoa(o.MaxResults)>>
       [] k = "validateQuery" -> <<"strict">>]

CustomIssueSearch ==
  /\ pc = "ready" /\ cmd = "search"
  /\ ParseAndIssue("GET", <<"rest", "api", "2", "search">>, Encode(SearchParams(opt)), <<>>)
  /\ UNCHANGED <<cmd, opt, received, loc, outputs, errs, optvars>>

\* Graylog.Logs: one request against the search endpoint (its query and
\* authorization are left out).
Logs ==
  /\ pc = "ready" /\ cmd = "logs"
  /\ Issue(Request("GET", <<"api", "search">>, <<>>, [scheme |-> "", cred |-> <<>>],
                   NoHeaders, <<>>))
  /\ UNCHANGED <<cmd, opt, received, loc, ret, outputs, errs, optvars>>

(***************************************************************************)
(* The transport's results.                                                *)
(***************************************************************************)

\* What the transport gives a method that returns the raw bytes: an error, or
\* a status code and a body.
RawResponses ==
  {[err |-> TRUE, code |-> 0, body |-> ""]}
  \cup {[err |-> FALSE, code |-> c, body |-> b] :
          c \in {200, 204, 400}, b \in {"", "response body"}}

RawCmds == {"create", "add-comment", "add-attachment", "update", "search", "logs"}

\* HttpPostRaw / HttpPutRaw / HttpGetRaw return to a method that hands the
\* bytes on as they are.
HttpReturnRaw ==
  /\ pc = "wait" /\ cmd \in RawCmds
  /\ \E resp \in RawResponses :
       /\ pending' = Tail(pending)
       /\ received' = Append(received, resp)
       /\ Return(IF resp.err THEN ErrRet("transport") ELSE OkRet(resp.body))
  /\ UNCHANGED <<cmd, opt, requests, loc, outputs, errs, optvars>>

\* common.JsonMarshal of an OutputCode
OutputCode(c) == [code |-> c]

\* A CustomIssueChangeTransitions that wraps the body along with the code.
HttpReturnOutCode_Body ==
  /\ pc = "wait" /\ cmd = "change-transitions"
  /\ \E resp \in RawResponses :
       /\ pending' = Tail(pending)
       /\ received' = Append(received, resp)
       /\ Return(IF resp.err THEN ErrRet("transport")
                 ELSE OkRet([code |-> resp.code, body |-> resp.body]))
  /\ UNCHANGED <<cmd, opt, requests, loc, outputs, errs, optvars>>

\* HttpPostRawOutCode returns to CustomIssueChangeTransitions.
HttpReturnOutCode ==
  /\ pc = "wait" /\ cmd = "change-transitions"
  /\ \E resp \in RawResponses :
       /\ pending' = Tail(pending)
       /\ received' = Append(received, resp)
       /\ Return(IF resp.err THEN ErrRet("transport") ELSE OkRet(OutputCode(resp.code)))
  /\ UNCHANGED <<cmd, opt, requests, loc, outputs, errs, optvars>>

(***************************************************************************)
(* Asset search.                                                           *)
(***************************************************************************)

EntryLists == {<<>>, <<"e1">>, <<"e2", "e1">>}

\* A response body by what json.Unmarshal makes of it.
Page(entries, attrs, size) ==
  [err |-> FALSE,
   body |-> [json |-> "object",
             m |-> [objectEntries |-> entries, objectTypeAttributes |-> attrs,
                    pageSize |-> size]]]

NoPage == [objectEntries |-> JMissing, objectTypeAttributes |-> JMissing, pageSize |-> JMissing]

FailedPages ==
  {[err |-> TRUE, body |-> [json |-> "none", m |-> NoPage]],
   [err |-> FALSE, body |-> [json |-> "invalid", m |-> NoPage]],
   [err |-> FALSE, body |-> [json |-> "array", m |-> NoPage]]}

\* pageSize values in halves: -1, -0.5, 0, 0.5, 1, ..., MaxPages + 0.5
PageSizes == (-2)..(2 * MaxPages + 1)

FirstPageResponses ==
  FailedPages
  \cup {Page(JList(e), JList(a), JNum(h)) :
          e \in EntryLists, a \in {<<>>, <<"at1", "at2">>}, h \in PageSizes}
  \cup {Page(e, JList(<<"at1">>), JNum(4)) : e \in {JMissing, JStr}}
  \cup {Page(JList(<<"e1">>), a, JNum(4)) : a \in {JMissing, JStr}}
  \cup {Page(JList(<<"e1">>), JList(<<"at1">>), h) : h \in {JMissing, JStr}}

LaterPageResponses ==
  FailedPages
  \cup {Page(JList(<<>>), JMissing, JMissing),
        Page(JList(<<"e1">>), JList(<<"at9">>), JNum(2)),
        Page(JList(<<"e2", "e1">>), JList(<<>>), JNum(2 * MaxPages + 4)),
        Page(JMissing, JList(<<"at1">>), JNum(4)),
        Page(JStr, JList(<<"at1">>), JNum(4))}

\* jsonJiraAssetsUnmarshal: a decoding error, a failed assertion on a body
\* that is no JSON object, or the object's map.
jsonJiraAssetsUnmarshal(a) ==
  CASE a.json = "invalid" -> [kind |-> "err", m |-> NoPage]
    [] a.json = "object" -> [kind |-> "ok", m |-> a.m]
    [] OTHER -> [kind |-> "panic", m |-> NoPage]

\* A FirstPage whose assertions are checked and answered with an error.
FirstPage_Checked(resp) ==
  IF resp.err THEN [kind |-> "err", err |-> "transport", m |-> NoPage]
  ELSE LET d == jsonJiraAssetsUnmarshal(resp.body) IN
       IF d.kind = "err" THEN [kind |-> "err", err |-> "json.Unmarshal", m |-> NoPage]
       ELSE IF d.kind = "panic" THEN [kind |-> "panic", err |-> "", m |-> NoPage]
       ELSE IF \/ d.m.objectEntries.t # "list"
               \/ d.m.objectTypeAttributes.t # "list"
               \/ d.m.pageSize.t # "num"
            THEN [kind |-> "err", err |-> "unexpected response shape", m |-> d.m]
            ELSE [kind |-> "ok", err |-> "", m |-> d.m]

\* The outcome of taking page 1: transport, decoding, the three assertions.
FirstPage(resp) ==
  IF resp.err THEN [kind |-> "err", err |-> "transport", m |-> NoPage]
  ELSE LET d == jsonJiraAssetsUnmarshal(resp.body) IN
       IF d.kind = "err" THEN [kind |-> "err", err |-> "json.Unmarshal", m |-> NoPage]
       ELSE IF d.kind = "panic" THEN [kind |-> "panic", err |-> "", m |-> NoPage]
       ELSE IF \/ d.m.objectEntries.t # "list"
               \/ d.m.objectTypeAttributes.t # "list"
               \/ d.m.pageSize.t # "num"
            THEN [kind |-> "panic", err |-> "", m |-> d.m]
            ELSE [kind |-> "ok", err |-> "", m |-> d.m]

\* A LaterPage that recovers from a failed page: a page whose GET or decoding
\* failed counts as a page without entries and the search goes on.
LaterPage_SkipFailed(resp) ==
  IF resp.err THEN [kind |-> "ok", err |-> "", m |-> [NoPage EXCEPT !.objectEntries = JList(<<>>)]]
  ELSE LET d == jsonJiraAssetsUnmarshal(resp.body) IN
       IF d.kind = "err"
       THEN [kind |-> "ok", err |-> "", m |-> [NoPage EXCEPT !.objectEntries = JList(<<>>)]]
       ELSE IF d.kind = "panic" THEN [kind |-> "panic", err |-> "", m |-> NoPage]
       ELSE IF d.m.objectEntries.t # "list"
            THEN [kind |-> "panic", err |-> "", m |-> d.m]
            ELSE [kind |-> "ok", err |-> "", m |-> d.m]

\* The outcome of taking a later page: transport, decoding, one assertion.
LaterPage(resp) ==
  IF resp.err THEN [kind |-> "err", err |-> "transport", m |-> NoPage]
  ELSE LET d == jsonJiraAssetsUnmarshal(resp.body) IN
       IF d.kind = "err" THEN [kind |-> "err", err |-> "json.Unmarshal", m |-> NoPage]
       ELSE IF d.kind = "panic" THEN [kind |-> "panic", err |-> "", m |-> NoPage]
       ELSE IF d.m.objectEntries.t # "list"
            THEN [kind |-> "panic", err |-> "", m |-> d.m]
            ELSE [kind |-> "ok", err |-> "", m |-> d.m]

\* A loop bound that stops one page early.
IntOf_OneShort(h) == (h \div 2) - 1

\* int(pageSize), pageSize given in halves; the loop takes it for
\* pageSize > 1 only, where cutting the fraction and rounding down agree.
IntOf(h) == h \div 2

\* pageSize > 1, pageSize given in halves
MoreThanOnePage(h) == h > 2

\* json.Marshal of the composed result
AssetsResult(l) == [objects |-> l.assetsObj, attributes |-> l.objAttr]

\* A page query built afresh, holding the page alone.
PageParams_Fresh(params, i) == [k \in {"page"} |-> <<Itoa(i)>>]

\* The query of page i, as url.Values: params.Set("page", i) on the first query.
PageParams(params, i) ==
  [k \in (DOMAIN params) \cup {"page"} |-> IF k = "page" THEN <<Itoa(i)>> ELSE params[k]]

\* AssetsCustomSearch up to its first GET.
AssetsCustomSearch ==
  /\ pc = "ready" /\ cmd = "assets-search"
  /\ LET params == [k \in {"qlQuery", "resultPerPage"} |->
                      IF k = "qlQuery" THEN opt.SearchPattern
                      ELSE <<Itoa(opt.ResultPerPage)>>]
         u == UrlParse(opt.URL)
     IN IF ~u.ok
        THEN Return(ErrRet("url.Parse")) /\ UNCHANGED <<requests, pending, loc>>
        ELSE LET path == PathJoin(u.path, <<"rest", "insight", "1.0", "aql", "objects">>) IN
             /\ Issue(Request("GET", path, Encode(params), getAuth(opt), NoHeaders, <<>>))
             /\ loc' = [loc EXCEPT !.params = params, !.path = path]
             /\ UNCHANGED ret
  /\ UNCHANGED <<cmd, opt, received, outputs, errs, optvars>>

\* Page 1 arrives: decode, take entries, attributes and pageSize, enter the
\* loop when pageSize > 1, else return.
AssetsFirstPage ==
  /\ pc = "wait" /\ cmd = "assets-search" /\ received = <<>>
  /\ \E resp \in FirstPageResponses :
       /\ pending' = Tail(pending)
       /\ received' = Append(received, resp)
       /\ LET d == FirstPage(resp) IN
          CASE d.kind = "err" -> Return(ErrRet(d.err)) /\ UNCHANGED loc
            [] d.kind = "panic" -> pc' = "crashed" /\ UNCHANGED <<ret, loc>>
            [] OTHER ->
                 LET l == [loc EXCEPT !.assetsObj = d.m.objectEntries.l,
                                      !.objAttr = d.m.objectTypeAttributes.l,
                                      !.pageSize = d.m.pageSize.n, !.i = 2]
                 IN /\ loc' = l
                    /\ IF MoreThanOnePage(l.pageSize)
                       THEN pc' = "loop" /\ UNCHANGED ret
                       ELSE Return(OkRet(AssetsResult(l)))
  /\ UNCHANGED <<cmd, opt, requests, outputs, errs, optvars>>

\* The loop's head: the GET of page i while i <= int(pageSize), else the result.
AssetsLoop ==
  /\ pc = "loop" /\ cmd = "assets-search"
  /\ IF loc.i <= IntOf(loc.pageSize)
     THEN /\ Issue(Request("GET", loc.path, Encode(PageParams(loc.params, loc.i)),
                           getAuth(opt), NoHeaders, <<>>))
          /\ UNCHANGED ret
     ELSE Return(OkRet(AssetsResult(loc))) /\ UNCHANGED <<requests, pending>>
  /\ UNCHANGED <<cmd, opt, received, loc, outputs, errs, optvars>>

\* Page i arrives: decode, append its entries, i++.
AssetsNextPage ==
  /\ pc = "wait" /\ cmd = "assets-search" /\ received # <<>>
  /\ \E resp \in LaterPageResponses :
       /\ pending' = Tail(pending)
       /\ received' = Append(received, resp)
       /\ LET d == LaterPage(resp) IN
          CASE d.kind = "err" -> Return(ErrRet(d.err)) /\ UNCHANGED loc
            [] d.kind = "panic" -> pc' = "crashed" /\ UNCHANGED <<ret, loc>>
            [] OTHER ->
                 /\ loc' = [loc EXCEPT !.assetsObj = loc.assetsObj \o d.m.objectEntries.l,
                                       !.i = loc.i + 1]
                 /\ pc' = "loop"
                 /\ UNCHANGED ret
  /\ UNCHANGED <<cmd, opt, requests, outputs, errs, optvars>>

(***************************************************************************)
(* The subcommand's Run, after the client call.                            *)
(***************************************************************************)

\* A Run whose error branch lacks the return.
Report_NoReturn ==
  /\ pc = "returned"
  /\ IF ret.kind = "err"
     THEN /\ errs' = Append(errs, ret.err)
          /\ outputs' = Append(outputs, ret.bytes)
          /\ pc' = "errored"
     ELSE /\ outputs' = Append(outputs, ret.bytes)
          /\ pc' = "done"
          /\ UNCHANGED errs
  /\ UNCHANGED <<cmd, opt, requests, pending, received, loc, ret, optvars>>

\* if err != nil { stdout.Error(err); return }; then the output step.
Report ==
  /\ pc = "returned"
  /\ IF ret.kind = "err"
     THEN /\ errs' = Append(errs, ret.err)
          /\ pc' = "errored"
          /\ UNCHANGED outputs
     ELSE /\ outputs' = Append(outputs, ret.bytes)
          /\ pc' = "done"
          /\ UNCHANGED errs
  /\ UNCHANGED <<cmd, opt, requests, pending, received, loc, ret, optvars>>

Next ==
  \/ Resolve
  \/ Construct
  \/ CustomIssueCreate
  \/ CustomIssueUpdate
  \/ CustomIssueAddComment
  \/ CustomIssueAddAttachment
  \/ CustomIssueChangeTransitions
  \/ CustomIssueSearch
  \/ Logs
  \/ HttpReturnRaw
  \/ HttpReturnOutCode
  \/ AssetsCustomSearch
  \/ AssetsFirstPage
  \/ AssetsLoop
  \/ AssetsNextPage
  \/ Report

Spec == Init /\ [][Next]_vars

\* A run that goes on while it can: the Run is straight-line code, and a
\* transport call ends, with a response or with an error, within the client's
\* timeout.
FairSpec == Spec /\ WF_vars(Next)

(***************************************************************************)
(* Options from the environment and the flags.                             *)
(*                                                                         *)
(* A name is its sequence of words: the flag graylog-range-type and the    *)
(* environment variable GRAYLOG_RANGE_TYPE are both                        *)
(* <<"graylog", "range", "type">>.  An option field has the environment    *)
(* variable its initializer reads and the flag registered on it (<<>> when *)
(* no flag is).                                                            *)
(***************************************************************************)

Field(struct, name, env, flag) == [struct |-> struct, name |-> name, env |-> env, flag |-> flag]

NoFlag == <<>>

graylogOptions ==
  << Field("graylogOptions", "URL", <<"graylog", "url">>, <<"graylog", "url">>),
     Field("graylogOptions", "Timeout", <<"graylog", "timeout">>, <<"graylog", "timeout">>),
     Field("graylogOptions", "Insecure", <<"graylog", "insecure">>, <<"graylog", "insecure">>),
     Field("graylogOptions", "User", <<"graylog", "user">>, <<"graylog", "user">>),
     Field("graylogOptions", "Password", <<"graylog", "password">>, <<"graylog", "password">>),
     Field("graylogOptions", "Streams", <<"graylog", "streams">>, <<"graylog", "streams">>),
     Field("graylogOptions", "Query", <<"graylog", "query">>, <<"graylog", "query">>),
     Field("graylogOptions", "RangeType", <<"graylog", "range", "type">>, <<"graylog", "range", "type">>),
     Field("graylogOptions", "From", <<"graylog", "from">>, <<"graylog", "from">>),
     Field("graylogOptions", "To", <<"graylog", "to">>, <<"graylog", "to">>),
     Field("graylogOptions", "Sort", <<"graylog", "sort">>, <<"graylog", "sort">>),
     Field("graylogOptions", "Limit", <<"graylog", "limit">>, <<"graylog", "limit">>),
     Field("graylogOptions", "Range", <<"graylog", "range">>, NoFlag),
     Field("graylogOptions", "Output", <<"graylog", "output">>, <<"graylog", "output">>),
     Field("graylogOptions", "OutputQuery", <<"graylog", "ooutput", "query">>, <<"graylog", "output", "query">>) >>

jiraOptions ==
  << Field("jiraOptions", "URL", <<"jira", "url">>, <<"jira", "url">>),
     Field("jiraOptions", "Timeout", <<"jira", "timeout">>, <<"jira", "timeout">>),
     Field("jiraOptions", "Insecure", <<"jira", "insecure">>, <<"jira", "insecure">>),
     Field("jiraOptions", "User", <<"jira", "user">>, <<"jira", "user">>),
     Field("jiraOptions", "Password", <<"jira", "password">>, <<"jira", "password">>),
     Field("jiraOptions", "AccessToken", <<"jira", "access", "token">>, <<"jira", "access", "token">>) >>

jiraIssueCreateOptions ==
  << Field("jiraIssueCreateOptions", "ProjectKey", <<"jira", "issue", "project", "key">>, <<"jira", "issue", "project", "key">>),
     Field("jiraIssueCreateOptions", "Type", <<"jira", "issue", "type">>, <<"jira", "issue", "type">>),
     Field("jiraIssueCreateOptions", "Priority", <<"jira", "issue", "priority">>, <<"jira", "issue", "priority">>),
     Field("jiraIssueCreateOptions", "Assignee", <<"jira", "issue", "assignee">>, <<"jira", "issue", "assignee">>),
     Field("jiraIssueCreateOptions", "Reporter", <<"jira", "issue", "reporter">>, <<"jira", "issue", "reporter">>) >>

jiraIssueOptions ==
  << Field("jiraIssueOptions", "IdOrKey", <<"jira", "issue", "id", "or", "key">>, <<"jira", "issue", "id", "or", "key">>),
     Field("jiraIssueOptions", "Summary", <<"jira", "issue", "summary">>, <<"jira", "issue", "summary">>),
     Field("jiraIssueOptions", "Description", <<"jira", "issue", "description">>, <<"jira", "issue", "description">>),
     Field("jiraIssueOptions", "CustomFields", <<"jira", "issue", "custom", "fields">>, <<"jira", "issue", "custom", "fields">>),
     Field("jiraIssueOptions", "Labels", <<"jira", "issue", "labels">>, <<"jira", "issue", "labels">>),
     Field("jiraIssueOptions", "Status", <<"jira", "issue", "status">>, <<"jira", "issue", "status">>) >>

jiraIssueAddCommentOptions ==
  << Field("jiraIssueAddCommentOptions", "Body", <<"jira", "issue", "comment", "body">>, <<"jira", "issue", "comment", "body">>) >>

jiraIssueAddAttachmentOptions ==
  << Field("jiraIssueAddAttachmentOptions", "File", <<"jira", "issue", "attachment", "file">>, <<"jira", "issue", "attachment", "file">>),
     Field("jiraIssueAddAttachmentOptions", "Name", <<"jira", "issue", "attachment", "name">>, <<"jira", "issue", "attachment", "name">>) >>

jiraIssueSearchOptions ==
  << Field("jiraIssueSearchOptions", "SearchPattern", <<"jira", "issue", "search", "pattern">>, <<"jira", "issue", "search", "pattern">>),
     Field("jiraIssueSearchOptions", "MaxResults", <<"jira", "issue", "search", "max", "results">>, <<"jira", "issue", "search", "max", "results">>) >>

jiraAssetsSearchOptions ==
  << Field("jiraAssetsSearchOptions", "SearchPattern", <<"jira", "assets", "search", "pattern">>, <<"jira", "assets", "search", "pattern">>),
     Field("jiraAssetsSearchOptions", "ResultPerPage", <<"jira", "assets", "search", "result", "per", "page">>, <<"jira", "assets", "search", "results", "per", "page">>) >>

jiraOutput ==
  << Field("jiraOutput", "Output", <<"jira", "output">>, <<"jira", "output">>),
     Field("jiraOutput", "Query", <<"jira", "output", "query">>, <<"jira", "output", "query">>) >>

Fields ==
  graylogOptions \o jiraOptions \o jiraIssueCreateOptions \o jiraIssueOptions
  \o jiraIssueAddCommentOptions \o jiraIssueAddAttachmentOptions
  \o jiraIssueSearchOptions \o jiraAssetsSearchOptions \o jiraOutput

\* The name a user would give the field's flag and environment variable: the
\* flag's when there is one, else the environment variable's.
NameOf(f) == IF f.flag # NoFlag THEN f.flag ELSE f.env

\* envGet: the variable's value when it is set, else the default.
envGet(name, env) == IF name \in env THEN "env" ELSE "default"

\* The run starts with some variables among those the field might read set, and
\* the field's flag passed or not.
InitOptions ==
  /\ field \in 1..Len(Fields)
  /\ environ \in SUBSET {Fields[field].env, NameOf(Fields[field])}
  /\ args \in SUBSET {NameOf(Fields[field])}
  /\ value = ""
  /\ phase = "load"
  /\ cmd = "none" /\ opt = DefaultOpt /\ pc = "off"
  /\ requests = <<>> /\ pending = <<>> /\ received = <<>>
  /\ loc = NoLoc /\ ret = NoRet /\ outputs = <<>> /\ errs = <<>>

\* The package's variable initializers: each field from envGet.
LoadEnvironment ==
  /\ phase = "load"
  /\ value' = envGet(Fields[field].env, environ)
  /\ phase' = "flags"
  /\ UNCHANGED <<runvars, field, environ, args>>

\* The flags registered by NewGraylogCommand and NewJiraCommand.
Registered == {Fields[n].flag : n \in 1..Len(Fields)} \ {NoFlag}

\* cobra parses the command line: a flag that is not registered ends the run
\* with a usage error; a registered flag that is passed sets its field, one
\* that is not leaves the default it was registered with.
ParseFlags ==
  /\ phase = "flags"
  /\ IF args \subseteq Registered
     THEN /\ value' = IF Fields[field].flag \in args THEN "flag" ELSE value
          /\ phase' = "run"
     ELSE /\ phase' = "usage"
          /\ UNCHANGED value
  /\ UNCHANGED <<runvars, field, environ, args>>

NextOptions == LoadEnvironment \/ ParseFlags

SpecOptions == InitOptions /\ [][NextOptions]_vars

(***************************************************************************)
(* Reading a query string back, for the properties below.                  *)
(***************************************************************************)

\* The pieces of s between the separators sep.
RECURSIVE SplitAt(_, _)
SplitAt(s, sep) ==
  IF s = <<>> THEN << <<>> >>
  ELSE LET r == SplitAt(Tail(s), sep) IN
       IF Head(s) = sep THEN << <<>> >> \o r
       ELSE << <<Head(s)>> \o Head(r) >> \o Tail(r)

\* The key=value pairs of a raw query, in order.
QueryPairs(q) ==
  IF q = <<>> THEN <<>>
  ELSE LET parts == SplitAt(q, "&") IN
       [n \in 1..Len(parts) |->
          [key |-> IF Len(parts[n]) >= 2 /\ parts[n][2] = "=" THEN parts[n][1] ELSE "?",
           value |-> SubSeq(parts[n], 3, Len(parts[n]))]]

QueryKeys(q) == [n \in 1..Len(QueryPairs(q)) |-> QueryPairs(q)[n].key]

\* The characters an escaped value stands for.
Unescape1(c) ==
  CASE c = "%3D" -> "="
    [] c = "+" -> " "
    [] c = "%26" -> "&"
    [] c = "%25" -> "%"
    [] OTHER -> c

Unescape(v) == [n \in 1..Len(v) |-> Unescape1(v[n])]

\* The entries of the first n pages taken, in page order.
RECURSIVE EntriesOfPages(_, _)
EntriesOfPages(pages, n) ==
  IF n = 0 THEN <<>>
  ELSE EntriesOfPages(pages, n - 1) \o pages[n].body.m.objectEntries.l

(***************************************************************************)
(* Properties.                                                             *)
(***************************************************************************)

\* C1: asset search, page 1 reporting a whole pageSize = N > 1: when the search
\* returns its result it has issued exactly N GETs, the first without a page
\* parameter and the k-th with page = k for k = 2..N in that order, the result's
\* objects are the entries of pages 1..N in page order and its attributes are
\* page 1's.  In every state the k-th GET (k >= 2) asks for page k.
C1_MultiPageSearch ==
  cmd = "assets-search" =>
    /\ \A k \in 2..Len(requests) :
         /\ QueryKeys(requests[k].query) = <<"page", "qlQuery", "resultPerPage">>
         /\ QueryPairs(requests[k].query)[1].value = <<Digits[k + 1]>>
    /\ (ret.kind = "ok" /\ received[1].body.m.pageSize.n > 2
        /\ received[1].body.m.pageSize.n % 2 = 0) =>
         LET N == received[1].body.m.pageSize.n \div 2 IN
         /\ Len(requests) = N
         /\ Len(received) = N
         /\ QueryKeys(requests[1].query) = <<"qlQuery", "resultPerPage">>
         /\ \A k \in 1..N : requests[k].method = "GET"
         /\ ret.bytes.objects = EntriesOfPages(received, N)
         /\ ret.bytes.attributes = received[1].body.m.objectTypeAttributes.l

\* C1's case: pageSize = 3, three pages with entries taken, the result returned.
C1_Witness ==
  /\ cmd = "assets-search" /\ pc = "done"
  /\ received[1].body.m.pageSize.n = 6
  /\ Len(requests) = 3
  /\ received[1].body.m.objectEntries.l = <<"e1">>
  /\ received[2].body.m.objectEntries.l = <<"e2", "e1">>
  /\ received[3].body.m.objectEntries.l = <<"e1">>
  /\ ret.bytes.objects = <<"e1", "e2", "e1", "e1">>
  /\ ret.bytes.attributes = <<"at1", "at2">>

\* C2: the Authorization of every Jira request is decided by User and
\* AccessToken alone: Basic over user:password when User is set (whatever the
\* token), else Bearer with the token when it is set, else nothing.
C2_AuthSelection ==
  cmd \in JiraCmds =>
    \A k \in 1..Len(requests) :
      LET a == requests[k].auth IN
      /\ opt.User # "" =>
           a.scheme = "Basic" /\ a.cred = <<"base64", opt.User, ":", opt.Password>>
      /\ (opt.User = "" /\ opt.AccessToken # "") =>
           a.scheme = "Bearer" /\ a.cred = <<opt.AccessToken>>
      /\ (opt.User = "" /\ opt.AccessToken = "") =>
           a.scheme = "" /\ a.cred = <<>>

\* C2's case: user and token both set, a request issued with Basic.
C2_Witness ==
  /\ cmd \in JiraCmds /\ requests # <<>>
  /\ opt.User # "" /\ opt.AccessToken # ""
  /\ requests[1].auth.scheme = "Basic"

\* The custom-field map a create or update reads (empty when the option is).
CustomFieldMap == CustomFieldsOf(opt).m

\* The structured payload's "fields" object, before any custom field.
StructuredFields ==
  IF cmd = "create" THEN JiraIssueFields(CreateIssue(opt).Fields)
  ELSE JiraIssueFields(UpdateIssue(opt).Fields)

\* C3: in the body of a create or update, every key of the custom-field map
\* carries the map's value under "fields", also when the structured payload has
\* the key; a key of the structured payload alone keeps its value; there is no
\* other key.
C3_CustomFieldsWin ==
  (cmd \in {"create", "update"} /\ requests # <<>>) =>
    LET fields == requests[1].body.fields IN
    /\ DOMAIN fields = (DOMAIN StructuredFields) \cup (DOMAIN CustomFieldMap)
    /\ \A k \in DOMAIN CustomFieldMap : fields[k] = CustomFieldMap[k]
    /\ \A k \in (DOMAIN StructuredFields) \ (DOMAIN CustomFieldMap) :
         fields[k] = StructuredFields[k]

\* C3's case: a create whose priority, summary and labels are set both ways.
C3_Witness ==
  /\ cmd = "create" /\ requests # <<>>
  /\ opt.Priority = "High" /\ opt.Assignee = "bob" /\ opt.Labels = <<"ops">>
  /\ opt.CustomFields = "/cf/over.json"
  /\ requests[1].body.fields["priority"] = [name |-> "cf priority"]
  /\ requests[1].body.fields["summary"] = "cf summary"
  /\ requests[1].body.fields["assignee"] = [name |-> "bob"]
  /\ requests[1].body.fields["customfield_10000"] = "cf value"

\* A labels option that names at least one label.
HasLabel(l) == \E n \in 1..Len(l) : l[n] # ""

\* C4: in the body of a create or update built without custom fields, each of
\* priority, assignee, reporter (create) and labels (create and update) is
\* present exactly when its option is non-empty; a Labels list holding only
\* the empty string, which the CLI seeds when no label is given, counts as empty.
C4_OptionalPresence ==
  (cmd \in {"create", "update"} /\ requests # <<>> /\ opt.CustomFields = "") =>
    LET keys == DOMAIN requests[1].body.fields IN
    /\ cmd = "create" =>
         /\ "priority" \in keys <=> opt.Priority # ""
         /\ "assignee" \in keys <=> opt.Assignee # ""
         /\ "reporter" \in keys <=> opt.Reporter # ""
    /\ "labels" \in keys <=> HasLabel(opt.Labels)

\* C5: change state: a transport result without error gives a JSON object
\* holding the status code and nothing else, never the body (204 with no body
\* gives {"code":204}); a transport error gives that error and no object.
C5_TransitionCode ==
  (cmd = "change-transitions" /\ received # <<>>) =>
    IF received[1].err
    THEN ret.kind = "err" /\ ret.err = "transport" /\ ret.bytes = <<>>
    ELSE /\ ret.kind = "ok"
         /\ DOMAIN ret.bytes = {"code"}
         /\ ret.bytes.code = received[1].code
         /\ (received[1].code = 204 /\ received[1].body = "") => ret.bytes = [code |-> 204]

\* C5's case: HTTP 204 with no body, reported as {"code":204}.
C5_Witness ==
  /\ cmd = "change-transitions" /\ pc = "done"
  /\ received = <<[err |-> FALSE, code |-> 204, body |-> ""]>>
  /\ outputs = <<[code |-> 204]>>
  /\ errs = <<>>

\* C6: whatever the subcommand: a run aborted at content resolution or client
\* construction has issued no request; a failure inside the client before its
\* request (reading the custom fields, parsing the URL) leaves no request
\* either; once a client error is reported it is on the error stream and
\* nothing is output; the output step runs at most once, only after the client
\* returned without error.
C6_ErrorTiers ==
  /\ pc = "aborted" => requests = <<>> /\ outputs = <<>> /\ ret.kind = "none" /\ Len(errs) = 1
  /\ (ret.kind = "err" /\ ret.err \in {"ReadAndMarshal", "url.Parse"}) => requests = <<>>
  /\ ret.kind = "err" => outputs = <<>> /\ pc \in {"returned", "errored"}
  /\ pc = "errored" => ret.kind = "err" /\ errs = <<ret.err>> /\ outputs = <<>>
  /\ Len(outputs) <= 1
  /\ outputs # <<>> => ret.kind = "ok" /\ pc = "done" /\ errs = <<>>
  /\ pc \in {"start", "resolved", "ready", "wait", "loop", "crashed"} =>
       outputs = <<>> /\ errs = <<>>

\* C6's case: a request failed, the error was reported, nothing was output.
C6_Witness ==
  /\ pc = "errored" /\ cmd = "logs"
  /\ Len(requests) = 1 /\ received[1].err
  /\ errs = <<"transport">> /\ outputs = <<>>

\* A page whose decoded object the search cannot take: objectEntries absent or
\* no list on any page, objectTypeAttributes or pageSize absent or mistyped on
\* page 1.
Malformed(resp, first) ==
  /\ ~resp.err /\ resp.body.json = "object"
  /\ \/ resp.body.m.objectEntries.t # "list"
     \/ first /\ resp.body.m.objectTypeAttributes.t # "list"
     \/ first /\ resp.body.m.pageSize.t # "num"

\* C7: asset search: once a malformed page has been taken, the run has crashed:
\* the method returned neither an error nor a result, nothing reached the error
\* stream and nothing was output.
C7_MalformedPageCrashes ==
  (cmd = "assets-search" /\ received # <<>>
   /\ Malformed(received[Len(received)], Len(received) = 1)) =>
    /\ pc = "crashed"
    /\ ret = NoRet
    /\ errs = <<>>
    /\ outputs = <<>>

\* C7's case: page 1 without pageSize.
C7_Witness ==
  /\ cmd = "assets-search" /\ pc = "crashed"
  /\ Len(received) = 1
  /\ received[1].body.m.objectEntries.t = "list"
  /\ received[1].body.m.pageSize.t = "missing"

\* C8: at most one request is in flight, and the k-th request is issued only
\* after the results of the k-1 before it have been taken (for the asset
\* search: after page k-1 has been received and decoded).
C8_OneInFlight ==
  /\ Len(pending) <= 1
  /\ Len(requests) = Len(received) + Len(pending)
  /\ pc # "wait" => pending = <<>>

\* C8's case: the third page's GET in flight, two pages taken.
C8_Witness ==
  /\ cmd = "assets-search" /\ pc = "wait"
  /\ Len(requests) = 3 /\ Len(received) = 2 /\ Len(pending) = 1

\* C9: once the flags are parsed, whatever the field: it has a flag, the
\* environment variable it reads has the flag's name, and its value is the
\* flag's when the flag was passed, else the same-named variable's when that
\* is set, else the default; passing the field's flag is no usage error.
C9_FlagThenEnvThenDefault ==
  /\ phase = "usage" => args = {}
  /\ phase = "run" =>
       LET f == Fields[field] IN
       /\ f.flag # NoFlag
       /\ f.env = f.flag
       /\ value = IF NameOf(f) \in args THEN "flag"
                  ELSE IF NameOf(f) \in environ THEN "env"
                  ELSE "default"

\* The decimal text of the result caps of the model.
CapText(n) ==
  CASE n = 10 -> "10" [] n = 50 -> "50" [] n = 0 -> "0" [] n = -1 -> "-1"

\* C10: issue search with a base URL that parses: exactly one GET, to the base
\* path joined with /rest/api/2/search; its query has exactly jql, maxResults
\* and validateQuery, jql standing for the search pattern, maxResults for
\* MaxResults in decimal and validateQuery for strict; "project=X" with 10
\* gives jql=project%3DX&maxResults=10&validateQuery=strict; the bytes
\* returned are the response's.
C10_IssueSearch ==
  (cmd = "search" /\ UrlParse(opt.URL).ok /\ pc \notin {"start", "resolved", "ready", "aborted"}) =>
    LET q == requests[1].query IN
    /\ Len(requests) = 1
    /\ requests[1].method = "GET"
    /\ requests[1].path =
         (IF opt.URL = "https://jira" THEN <<>> ELSE <<"root">>) \o <<"rest", "api", "2", "search">>
    /\ QueryKeys(q) = <<"jql", "maxResults", "validateQuery">>
    /\ Unescape(QueryPairs(q)[1].value) = opt.SearchPattern
    /\ \A n \in 1..3 : \A j \in 1..Len(QueryPairs(q)[n].value) :
         QueryPairs(q)[n].value[j] \notin {"=", "&"}
    /\ QueryPairs(q)[2].value = <<CapText(opt.MaxResults)>>
    /\ QueryPairs(q)[3].value = <<"strict">>
    /\ (opt.SearchPattern = <<"project", "=", "X">> /\ opt.MaxResults = 10) =>
         Flat(q) = "jql=project%3DX&maxResults=10&validateQuery=strict"
    /\ ret.kind = "ok" => ret.bytes = received[1].body
    /\ (received # <<>> /\ ~received[1].err) => ret.kind = "ok"

\* C10's case: "project=X" with 10, searched and output.
C10_Witness ==
  /\ cmd = "search" /\ pc = "done"
  /\ opt.SearchPattern = <<"project", "=", "X">> /\ opt.MaxResults = 10
  /\ opt.URL = "https://jira/root/"
  /\ Flat(requests[1].query) = "jql=project%3DX&maxResults=10&validateQuery=strict"
  /\ outputs = <<"response body">>

\* The option a sub-object of the payload is built from.
OptionOf(k) ==
  CASE k = "project" -> opt.ProjectKey
    [] k = "issuetype" -> opt.Type
    [] k = "priority" -> opt.Priority
    [] k = "assignee" -> opt.Assignee
    [] k = "reporter" -> opt.Reporter

\* C11 as stated: in the body of a create built without custom fields, each of
\* project, issuetype, priority, assignee and reporter is present only when
\* its option is non-empty; so an empty ProjectKey gives a body without
\* project and an empty Type a body without issuetype.
C11_OnlyWhenNonEmpty ==
  (cmd = "create" /\ requests # <<>> /\ opt.CustomFields = "") =>
    \A k \in {"project", "issuetype", "priority", "assignee", "reporter"} :
      k \in DOMAIN requests[1].body.fields => OptionOf(k) # ""

\* C11, amended: a create body always has project and issuetype, holding
\* ProjectKey as key and Type as name also when these are empty; priority,
\* assignee and reporter are present exactly when their option is non-empty,
\* holding it as name; an update body takes none of the five from the
\* options. Keys the custom-field map names are the map's (C3) and are left
\* aside.
C11_RequiredAndOptional ==
  (cmd \in {"create", "update"} /\ requests # <<>>) =>
    LET fields == requests[1].body.fields
        own == {"project", "issuetype", "priority", "assignee", "reporter"}
                 \ DOMAIN CustomFieldMap
    IN
    /\ cmd = "create" =>
         /\ \A k \in own \cap {"project", "issuetype"} : k \in DOMAIN fields
         /\ "project" \in own => fields["project"] = [key |-> opt.ProjectKey]
         /\ "issuetype" \in own => fields["issuetype"] = [name |-> opt.Type]
         /\ \A k \in own \cap {"priority", "assignee", "reporter"} :
              /\ k \in DOMAIN fields <=> OptionOf(k) # ""
              /\ k \in DOMAIN fields => fields[k] = [name |-> OptionOf(k)]
    /\ cmd = "update" => \A k \in own : k \notin DOMAIN fields

\* C11's case: a create with an empty ProjectKey, sent with "project":{"key":""}.
C11_Witness ==
  /\ cmd = "create" /\ requests # <<>>
  /\ opt.ProjectKey = "" /\ opt.Type = "Task" /\ opt.CustomFields = ""
  /\ requests[1].body.fields["project"] = [key |-> ""]
  /\ "priority" \notin DOMAIN requests[1].body.fields

\* C12: the header map an attachment upload builds always has
\* X-Atlassian-Token: no-check, and when neither User nor AccessToken is set
\* it has no Authorization entry at all, rather than one with an empty value;
\* the other calls, which hand the transport the getAuth value alone, hand it
\* the empty value then.
C12_NoAuthorizationHeader ==
  (cmd \in JiraCmds /\ requests # <<>>) =>
    \A k \in 1..Len(requests) :
      IF cmd = "add-attachment"
      THEN /\ requests[k].headers.XAtlassianToken = "no-check"
           /\ (opt.User = "" /\ opt.AccessToken = "") =>
                "Authorization" \notin DOMAIN requests[k].headers
      ELSE (opt.User = "" /\ opt.AccessToken = "") => requests[k].auth.scheme = ""

\* A page whose GET failed or whose body is no JSON text.
FailedPage(resp) == resp.err \/ resp.body.json = "invalid"

\* C13: asset search: once page k has failed (its GET, or the decoding of its
\* body), the method has returned that error with no result, k GETs have been
\* issued in all (pages 1..k once each, none in flight, none after k), no
\* earlier page had failed, and nothing of pages 1..k-1 is output.
C13_NoRetryNoPartial ==
  (cmd = "assets-search" /\ received # <<>> /\ FailedPage(received[Len(received)])) =>
    LET k == Len(received) IN
    /\ ret.kind = "err"
    /\ ret.err = (IF received[k].err THEN "transport" ELSE "json.Unmarshal")
    /\ ret.bytes = <<>>
    /\ pc \in {"returned", "errored"}
    /\ Len(requests) = k /\ pending = <<>>
    /\ \A j \in 2..k : QueryPairs(requests[j].query)[1] = [key |-> "page", value |-> <<Digits[j + 1]>>]
    /\ \A j \in 1..(k - 1) : ~FailedPage(received[j])
    /\ outputs = <<>>

\* C13's case: page 1 of three gave entries, page 2's GET failed: the error is
\* reported, page 3 was never asked for, page 1's entries are gone.
C13_Witness ==
  /\ cmd = "assets-search" /\ pc = "errored"
  /\ Len(received) = 2 /\ Len(requests) = 2
  /\ received[1].body.m.pageSize.n = 6
  /\ received[1].body.m.objectEntries.l = <<"e2", "e1">>
  /\ received[2].err
  /\ loc.assetsObj = <<"e2", "e1">>
  /\ ret = ErrRet("transport")
  /\ errs = <<"transport">> /\ outputs = <<>>

\* C14: add-attachment.  The step that resolves the content leaves Name the
\* base name of the path File held before the step when Name was empty and
\* that path names an existing file ("/tmp/att.bin" gives "att.bin"), leaves a
\* non-empty Name as it was, and leaves File the file's content; the upload
\* is built from these, its file part named Name and holding File; a run whose
\* content resolution failed has issued no upload.
C14_NameBeforeContent ==
  /\ [](cmd = "add-attachment" /\ pc = "aborted" => requests = <<>> /\ pending = <<>>)
  /\ [][cmd = "add-attachment" =>
         /\ (pc = "start" /\ pc' = "resolved") =>
              /\ (opt.Name = "" /\ opt.File \in ExistingFiles) => opt'.Name = Base(opt.File)
              /\ (opt.Name = "" /\ opt.File = "/tmp/att.bin") => opt'.Name = "att.bin"
              /\ (opt.Name = "" /\ opt.File \notin ExistingFiles) => opt'.Name = ""
              /\ opt.Name # "" => opt'.Name = opt.Name
              /\ opt.File \in ExistingFiles => opt'.File = FileText(opt.File)
              /\ opt.File \notin ExistingFiles => opt'.File = opt.File
         /\ (pc = "start" /\ pc' = "aborted") => requests' = <<>>
         /\ pc # "start" => opt' = opt
         /\ requests' # requests =>
              /\ pc = "ready" /\ requests = <<>> /\ Len(requests') = 1
              /\ requests'[1].body =
                   <<[field |-> "file", filename |-> opt.Name, content |-> opt.File]>>
       ]_vars

\* C14's case: no Name given, File the path of an existing file: the upload's
\* part is named after the path and holds the file's content.
C14_Witness ==
  /\ cmd = "add-attachment" /\ Len(requests) = 1
  /\ opt.Name = "att.bin" /\ opt.File = "bytes of att.bin"
  /\ requests[1].body =
       <<[field |-> "file", filename |-> "att.bin", content |-> "bytes of att.bin"]>>

\* The run has ended: output made, error reported, aborted or crashed.
Terminated == pc \in {"done", "errored", "aborted", "crashed"}

\* max(1, floor(pageSize)), pageSize given in halves
TotalGets(h) == IF h \div 2 > 1 THEN h \div 2 ELSE 1

\* Page 1 was taken whole: decoded, with entries, attributes and pageSize.
FirstPageTaken ==
  /\ received # <<>>
  /\ ~FailedPage(received[1]) /\ received[1].body.json = "object"
  /\ ~Malformed(received[1], TRUE)

\* C15: asset search.  Every run ends.  The first GET has qlQuery and
\* resultPerPage and no page; the k-th has page = k and the first GET's qlQuery
\* and resultPerPage.  With page 1 taken and reporting pageSize, never more
\* than max(1, floor(pageSize)) GETs are issued, whatever later pages report,
\* and a search that returns its result has issued exactly that many; for
\* pageSize <= 1 that is one GET and the result is page 1's entries and
\* attributes.
C15_TerminatesWithinPageSize ==
  /\ (cmd = "assets-search") ~> Terminated
  /\ [](cmd = "assets-search" =>
        /\ requests # <<>> => QueryKeys(requests[1].query) = <<"qlQuery", "resultPerPage">>
        /\ \A k \in 2..Len(requests) :
             /\ QueryKeys(requests[k].query) = <<"page", "qlQuery", "resultPerPage">>
             /\ QueryPairs(requests[k].query)[1].value = <<Digits[k + 1]>>
             /\ QueryPairs(requests[k].query)[2].value = QueryPairs(requests[1].query)[1].value
             /\ QueryPairs(requests[k].query)[3].value = QueryPairs(requests[1].query)[2].value
             /\ requests[k].path = requests[1].path
        /\ FirstPageTaken =>
             LET h == received[1].body.m.pageSize.n IN
             /\ Len(requests) <= TotalGets(h)
             /\ ret.kind = "ok" => Len(requests) = TotalGets(h) /\ Len(received) = TotalGets(h)
             /\ h <= 2 =>
                  /\ Len(requests) = 1
                  /\ ret = OkRet([objects |-> received[1].body.m.objectEntries.l,
                                  attributes |-> received[1].body.m.objectTypeAttributes.l]))

\* C15's case: page 1 reports pageSize 3.5, page 2 reports a larger one: three
\* GETs, then the result.
C15_Witness ==
  /\ cmd = "assets-search" /\ pc = "done"
  /\ received[1].body.m.pageSize.n = 7
  /\ Len(requests) = 3 /\ Len(received) = 3
  /\ received[2].body.m.pageSize.t = "num" /\ received[2].body.m.pageSize.n > 7
  /\ received[3].body.m.pageSize.t = "missing"
  /\ outputs # <<>>

====
